---- MODULE Spec2Model ----
(***************************************************************************)
(* Model of ppsci/loss/l1.py: the classes L1Loss and PeriodicL1Loss.       *)
(*                                                                         *)
(* Tensors are one-dimensional sequences of integers (the leading          *)
(* dimension is the only one the code looks at); scalar losses are exact   *)
(* rationals <<num, den>>, den = 0 standing for nan (the mean of an empty  *)
(* tensor).  A Python value carries its type: None, float, int or dict.    *)
(* A dict is a function on a fixed key universe to Absent or Entry(v).     *)
(* label_dict, the only mapping the code iterates, is the sequence of its  *)
(* <<key, tensor>> items in insertion order.                               *)
(*                                                                         *)
(* The caller's mappings are fixed in the initial state; an object is      *)
(* constructed once and forward is then called on it up to MaxCalls times. *)
(* Tensors have 1..MaxLen rows, and a label tensor has the rows of its     *)
(* field's output tensor, as F.l1_loss requires.  Exceptions are named by  *)
(* their origin: "ValueError" is the odd-length error of l1.py,            *)
(* "KeyError" a failed dict lookup, "BroadcastError" the framework's       *)
(* refusal to multiply tensors whose rows do not broadcast.                *)
(***************************************************************************)
EXTENDS Integers, Sequences, FiniteSets, TLC

VARIABLES self, ctor, output_dict, label_dict, weight_dict, ret, ncalls, pc

vars == <<self, ctor, output_dict, label_dict, weight_dict, ret, ncalls, pc>>

(***************************************************************************)
(* Bounds and input pools                                                  *)
(***************************************************************************)
MaxLen == 4

MaxCalls == 2

Keys == {"u", "v"}

AreaKey == "area"

OutKeys == Keys \cup {AreaKey}

Reductions == {"mean", "sum", "none"}

Seeds == {1, 2}

(***************************************************************************)
(* Python values                                                           *)
(***************************************************************************)
None == [type |-> "NoneType"]

PyFloat(x) == [type |-> "float", v |-> x]

PyInt(x) == [type |-> "int", v |-> x]

PyDict(f) == [type |-> "dict", d |-> f]

Absent == [has |-> FALSE]

Entry(x) == [has |-> TRUE, v |-> x]

\* key in d
Has(d, k) == k \in DOMAIN d /\ d[k].has

\* the keys of a label_dict, in iteration order
KeySeq(lab) == [i \in 1..Len(lab) |-> lab[i][1]]

KeySet(lab) == {lab[i][1] : i \in 1..Len(lab)}

(***************************************************************************)
(* Exact scalar arithmetic                                                 *)
(***************************************************************************)
AbsInt(x) == IF x < 0 THEN -x ELSE x

RECURSIVE GCD(_, _)
GCD(a, b) == IF b = 0 THEN a ELSE GCD(b, a % b)

NaN == <<0, 0>>

Rat(n, d) ==
    IF d = 0 THEN NaN
    ELSE LET g == GCD(AbsInt(n), AbsInt(d))
             s == IF d < 0 THEN -1 ELSE 1
         IN  <<(s * n) \div g, (s * d) \div g>>

Zero == Rat(0, 1)

IsNaN(q) == q[2] = 0

RatAdd(p, q) ==
    IF IsNaN(p) \/ IsNaN(q) THEN NaN
    ELSE Rat(p[1] * q[2] + q[1] * p[2], p[2] * q[2])

RatMul(p, q) ==
    IF IsNaN(p) \/ IsNaN(q) THEN NaN
    ELSE Rat(p[1] * q[1], p[2] * q[2])

RatInt(n) == Rat(n, 1)

(***************************************************************************)
(* Tensor primitives of the framework (paddle), as l1.py uses them         *)
(***************************************************************************)
TOk(t) == [exc |-> "none", t |-> t]

TErr(e) == [exc |-> e, t |-> <<>>]

RECURSIVE SumFrom(_, _)
SumFrom(t, i) == IF i > Len(t) THEN 0 ELSE t[i] + SumFrom(t, i + 1)

\* Tensor.sum()
TensorSum(t) == RatInt(SumFrom(t, 1))

\* Tensor.mean(): the sum over the element count, nan for an empty tensor
TensorMean(t) == Rat(SumFrom(t, 1), Len(t))

\* the broadcast length of two leading dimensions, -1 when they do not broadcast
BroadcastLen(a, b) ==
    IF a = b THEN a
    ELSE IF a = 1 THEN b
    ELSE IF b = 1 THEN a
    ELSE -1

At(t, i) == IF Len(t) = 1 THEN t[1] ELSE t[i]

\* F.l1_loss(x, y, "none"): elementwise |x - y|
l1_loss(x, y) ==
    LET n == BroadcastLen(Len(x), Len(y))
    IN  IF n < 0 THEN TErr("BroadcastError")
        ELSE TOk([i \in 1..n |-> AbsInt(At(x, i) - At(y, i))])

\* loss *= tensor: Tensor has no in-place multiply, so this is loss = loss * tensor
Multiply(x, y) ==
    LET n == BroadcastLen(Len(x), Len(y))
    IN  IF n < 0 THEN TErr("BroadcastError")
        ELSE TOk([i \in 1..n |-> At(x, i) * At(y, i)])

\* loss *= Python scalar
Scale(x, c) == [i \in 1..Len(x) |-> x[i] * c]

\* x[:n] and x[n:]
SliceTo(x, n) == SubSeq(x, 1, n)

SliceFrom(x, n) == SubSeq(x, n + 1, Len(x))

(***************************************************************************)
(* Construction                                                            *)
(***************************************************************************)
NoObj == [cls |-> "none"]

\* base.Loss.__init__(reduction, weight): stores both arguments
base_Loss_init(cls, reduction, weight) ==
    [cls |-> cls, reduction |-> reduction, weight |-> weight]

CtorRaise(e) == [exc |-> e, base_called |-> FALSE, obj |-> NoObj]

CtorDone(o) == [exc |-> "none", base_called |-> TRUE, obj |-> o]

\* L1Loss.__init__ without the check of reduction
L1Loss_init_unchecked(reduction, weight) ==
    CtorDone(base_Loss_init("L1Loss", reduction, weight))

L1Loss_init(reduction, weight) ==
    IF reduction \notin {"mean", "sum"}
    THEN CtorRaise("ValueError")
    ELSE CtorDone(base_Loss_init("L1Loss", reduction, weight))

PeriodicL1Loss_init(reduction, weight) ==
    IF reduction \notin {"mean", "sum"}
    THEN CtorRaise("ValueError")
    ELSE CtorDone(base_Loss_init("PeriodicL1Loss", reduction, weight))

(***************************************************************************)
(* forward                                                                 *)
(***************************************************************************)
Return(v) == [kind |-> "return", exc |-> "none", val |-> v]

Raise(e) == [kind |-> "raise", exc |-> e]

\* if isinstance(self.weight, float): ... elif isinstance(self.weight, dict)
\* and key in self.weight: ...  -- the factor the chain multiplies by
weight_factor(obj, key) ==
    IF obj.weight.type = "float" THEN obj.weight.v
    ELSE IF obj.weight.type = "dict" /\ Has(obj.weight.d, key)
         THEN obj.weight.d[key].v
    ELSE 1

\* the chain applied to the unreduced loss
apply_weight_tensor(obj, key, loss) == Scale(loss, weight_factor(obj, key))

\* the chain applied to the reduced loss
apply_weight_scalar(obj, key, loss) == RatMul(loss, RatInt(weight_factor(obj, key)))

\* if self.reduction == "sum": loss.sum()  elif "mean": loss.mean()
reduce(obj, loss) ==
    IF obj.reduction = "sum" THEN TensorSum(loss) ELSE TensorMean(loss)

\* if "area" in output_dict: loss *= output_dict["area"]
apply_area(out, loss) ==
    IF Has(out, AreaKey) THEN Multiply(loss, out[AreaKey].v) ELSE TOk(loss)

\* weight_dict.get(key, 1) in place of weight_dict[key]
apply_weight_dict_lenient(wd, key, loss) ==
    IF wd.type = "NoneType" \/ ~Has(wd.d, key) THEN TOk(loss)
    ELSE TOk(Scale(loss, wd.d[key].v))

\* if weight_dict is not None: loss *= weight_dict[key]
apply_weight_dict(wd, key, loss) ==
    IF wd.type = "NoneType" THEN TOk(loss)
    ELSE IF ~Has(wd.d, key) THEN TErr("KeyError")
    ELSE TOk(Scale(loss, wd.d[key].v))

\* losses = loss in place of losses += loss
accumulate_overwrite(losses, loss) == loss

\* losses += loss
accumulate(losses, loss) == RatAdd(losses, loss)

\* L1Loss.forward, the unreduced loss of one key
L1Loss_elementwise(obj, out, label, wd, key) ==
    IF ~Has(out, key) THEN TErr("KeyError")
    ELSE LET l0 == l1_loss(out[key].v, label)
         IN  IF l0.exc # "none" THEN l0
             ELSE LET l1 == apply_weight_dict(wd, key, l0.t)
                  IN  IF l1.exc # "none" THEN l1
                      ELSE apply_area(out, apply_weight_tensor(obj, key, l1.t))

RECURSIVE L1Loss_loop(_, _, _, _, _, _)
L1Loss_loop(obj, out, lab, wd, i, losses) ==
    IF i > Len(lab) THEN Return(losses)
    ELSE LET key == lab[i][1]
             e == L1Loss_elementwise(obj, out, lab[i][2], wd, key)
         IN  IF e.exc # "none" THEN Raise(e.exc)
             ELSE L1Loss_loop(obj, out, lab, wd, i + 1,
                    accumulate(losses, apply_weight_scalar(obj, key, reduce(obj, e.t))))

\* the parity check dropped
odd_length_never(n_output) == FALSE

\* n_output % 2 > 0
odd_length(n_output) == n_output % 2 > 0

\* PeriodicL1Loss.forward with the weight chain of L1Loss.forward, lines
\* 62-65, before the reduction as well
PeriodicL1Loss_elementwise_weighted(obj, out, wd, key) ==
    IF ~Has(out, key) THEN TErr("KeyError")
    ELSE LET n_output == Len(out[key].v)
         IN  IF n_output % 2 > 0 THEN TErr("ValueError")
             ELSE LET half == n_output \div 2
                      l0 == l1_loss(SliceTo(out[key].v, half), SliceFrom(out[key].v, half))
                  IN  IF l0.exc # "none" THEN l0
                      ELSE LET l1 == apply_weight_dict(wd, key, l0.t)
                           IN  IF l1.exc # "none" THEN l1
                               ELSE apply_area(out, Scale(l1.t, weight_factor(obj, key)))

\* PeriodicL1Loss.forward, the unreduced loss of one key
PeriodicL1Loss_elementwise(obj, out, wd, key) ==
    IF ~Has(out, key) THEN TErr("KeyError")
    ELSE LET n_output == Len(out[key].v)
         IN  IF odd_length(n_output) THEN TErr("ValueError")
             ELSE LET half == n_output \div 2
                      l0 == l1_loss(SliceTo(out[key].v, half), SliceFrom(out[key].v, half))
                  IN  IF l0.exc # "none" THEN l0
                      ELSE LET l1 == apply_weight_dict(wd, key, l0.t)
                           IN  IF l1.exc # "none" THEN l1
                               ELSE apply_area(out, l1.t)

RECURSIVE PeriodicL1Loss_loop(_, _, _, _, _, _)
PeriodicL1Loss_loop(obj, out, lab, wd, i, losses) ==
    IF i > Len(lab) THEN Return(losses)
    ELSE LET key == lab[i][1]
             e == PeriodicL1Loss_elementwise(obj, out, wd, key)
         IN  IF e.exc # "none" THEN Raise(e.exc)
             ELSE PeriodicL1Loss_loop(obj, out, lab, wd, i + 1,
                    accumulate(losses, apply_weight_scalar(obj, key, reduce(obj, e.t))))

\* the state a call leaves: its outcome, the receiver and the three mappings.
\* No statement of forward assigns to self or stores into a mapping, and
\* every tensor it multiplies in place is the fresh result of F.l1_loss.
Post(r, obj, out, lab, wd) ==
    [ret |-> r, self |-> obj, output_dict |-> out, label_dict |-> lab, weight_dict |-> wd]

\* L1Loss.forward computing the first key's loss in the output tensor itself
L1Loss_forward_inplace(obj, out, lab, wd) ==
    Post(L1Loss_loop(obj, out, lab, wd, 1, Zero), obj,
         IF Len(lab) > 0 /\ Has(out, lab[1][1])
         THEN [out EXCEPT ![lab[1][1]] =
                 Entry([i \in 1..Len(out[lab[1][1]].v) |->
                          AbsInt(out[lab[1][1]].v[i] - At(lab[1][2], i))])]
         ELSE out,
         lab, wd)

L1Loss_forward(obj, out, lab, wd) ==
    Post(L1Loss_loop(obj, out, lab, wd, 1, Zero), obj, out, lab, wd)

PeriodicL1Loss_forward(obj, out, lab, wd) ==
    Post(PeriodicL1Loss_loop(obj, out, lab, wd, 1, Zero), obj, out, lab, wd)

forward(obj, out, lab, wd) ==
    IF obj.cls = "L1Loss" THEN L1Loss_forward(obj, out, lab, wd)
    ELSE PeriodicL1Loss_forward(obj, out, lab, wd)

(***************************************************************************)
(* Inputs: the mappings a caller passes and the constructor arguments      *)
(***************************************************************************)
Lens == 1..MaxLen

\* a field's output tensor of n rows
OutTensor(k, n) ==
    IF k = "u" THEN [i \in 1..n |-> (i * i) % 7]
    ELSE [i \in 1..n |-> (3 * i * i + 1) % 7]

\* a field's label tensor of n rows
LabelTensor(k, n, s) ==
    IF k = "u" THEN [i \in 1..n |-> (s * i + 2 * s) % 5]
    ELSE [i \in 1..n |-> (s * i * i + s) % 5]

\* a per-sample area tensor of n rows
AreaTensor(n) == [i \in 1..n |-> i + 1]

CallWeight(k) == IF k = "u" THEN 3 ELSE 5

CtorWeight(k) == IF k = "u" THEN 2 ELSE 3

\* the dict with the entries of f at the keys of S
DictOn(S, f) == [k \in Keys |-> IF k \in S THEN Entry(f[k]) ELSE Absent]

OutputDicts ==
    {[k \in OutKeys |-> IF k = AreaKey THEN a ELSE f[k]] :
        f \in [Keys -> {Absent} \cup {Entry(n) : n \in Lens}],
        a \in {Absent} \cup {Entry(AreaTensor(n)) : n \in Lens}}

Concrete(out) ==
    [k \in OutKeys |->
        IF k = AreaKey \/ ~out[k].has THEN out[k]
        ELSE Entry(OutTensor(k, out[k].v))]

KeyOrders == {<<>>, <<"u">>, <<"v">>, <<"u", "v">>, <<"v", "u">>}

\* F.l1_loss takes a label of the shape of its input: a label tensor has the
\* rows of the field's output tensor (one row when the field has no output)
RowsOf(out, k) == IF Has(out, k) THEN Len(out[k].v) ELSE 1

LabelDicts(out) ==
    {[i \in 1..Len(o) |-> <<o[i], LabelTensor(o[i], RowsOf(out, o[i]), s)>>] :
        o \in KeyOrders, s \in Seeds}

WeightDicts == {None} \cup {PyDict(DictOn(S, [k \in Keys |-> CallWeight(k)])) : S \in SUBSET Keys}

CtorWeights ==
    {None, PyFloat(2), PyInt(2)} \cup {PyDict(DictOn(S, [k \in Keys |-> CtorWeight(k)])) : S \in SUBSET Keys}

(***************************************************************************)
(* The state machine                                                       *)
(***************************************************************************)
NoCall == [kind |-> "none"]

Init ==
    /\ self = NoObj
    /\ ctor = [cls |-> "none"]
    /\ \E o \in OutputDicts :
         /\ output_dict = Concrete(o)
         /\ label_dict \in LabelDicts(Concrete(o))
    /\ weight_dict \in WeightDicts
    /\ ret = NoCall
    /\ ncalls = 0
    /\ pc = "start"

Constructed(cls, reduction, weight, r) ==
    /\ pc = "start"
    /\ ctor' = [cls |-> cls, reduction |-> reduction, weight |-> weight,
                exc |-> r.exc, base_called |-> r.base_called]
    /\ self' = r.obj
    /\ pc' = IF r.exc = "none" THEN "constructed" ELSE "ctor_failed"
    /\ UNCHANGED <<output_dict, label_dict, weight_dict, ret, ncalls>>

NewL1Loss ==
    \E reduction \in Reductions, weight \in CtorWeights :
        Constructed("L1Loss", reduction, weight, L1Loss_init(reduction, weight))

NewPeriodicL1Loss ==
    \E reduction \in Reductions, weight \in CtorWeights :
        Constructed("PeriodicL1Loss", reduction, weight,
                    PeriodicL1Loss_init(reduction, weight))

Called(post) ==
    /\ ret' = post.ret
    /\ self' = post.self
    /\ output_dict' = post.output_dict
    /\ label_dict' = post.label_dict
    /\ weight_dict' = post.weight_dict
    /\ pc' = IF post.ret.kind = "return" THEN "returned" ELSE "raised"
    /\ ncalls' = ncalls + 1
    /\ UNCHANGED ctor

CanCall == pc \in {"constructed", "returned", "raised"} /\ ncalls < MaxCalls

CallL1Forward ==
    /\ CanCall
    /\ self.cls = "L1Loss"
    /\ Called(L1Loss_forward(self, output_dict, label_dict, weight_dict))

CallPeriodicForward ==
    /\ CanCall
    /\ self.cls = "PeriodicL1Loss"
    /\ Called(PeriodicL1Loss_forward(self, output_dict, label_dict, weight_dict))

Next == NewL1Loss \/ NewPeriodicL1Loss \/ CallL1Forward \/ CallPeriodicForward

Spec == Init /\ [][Next]_vars

(***************************************************************************)
(* Vocabulary of the properties                                            *)
(***************************************************************************)
AfterCall == pc \in {"returned", "raised"}

IsL1 == self.cls = "L1Loss"

IsPeriodic == self.cls = "PeriodicL1Loss"

LabelKeys == KeySet(label_dict)

LabelOf(k) == label_dict[CHOOSE i \in 1..Len(label_dict) : label_dict[i][1] = k][2]

Rows(k) == Len(output_dict[k].v)

HasArea == Has(output_dict, AreaKey)

AreaRows == Len(output_dict[AreaKey].v)

\* the sum of term(k) over the keys of S
RefSum(S, term(_)) ==
    LET f[T \in SUBSET S] ==
            IF T = {} THEN Zero
            ELSE LET k == CHOOSE x \in T : TRUE
                 IN  RatAdd(term(k), f[T \ {k}])
    IN  f[S]

\* the constructor weight for key k: the scalar, or the mapping's entry for k
RefW(k) ==
    IF self.weight.type \in {"float", "int"} THEN self.weight.v
    ELSE IF self.weight.type = "dict" /\ Has(self.weight.d, k) THEN self.weight.d[k].v
    ELSE 1

\* the call-time weight of key k
RefD(k) == IF weight_dict.type = "NoneType" THEN 1 ELSE weight_dict.d[k].v

\* the area factor of row i
RefA(i) == IF HasArea THEN At(output_dict[AreaKey].v, i) ELSE 1

\* the reduction R: the sum, or the sum over the element count
RefR(t) == IF self.reduction = "sum" THEN RatInt(SumFrom(t, 1)) ELSE Rat(SumFrom(t, 1), Len(t))

\* rows of the product of an m-row loss with the area tensor
RefRows(m) == IF HasArea THEN BroadcastLen(m, AreaRows) ELSE m

\* w * a * d_k * |output[k] - label[k]|, elementwise
RefL1Elem(k, w) ==
    [i \in 1..RefRows(Rows(k)) |->
        w * RefA(i) * RefD(k) * AbsInt(At(output_dict[k].v, i) - At(LabelOf(k), i))]

\* L1Loss: the formula's contribution of key k
RefL1Term(k) == RatMul(RatInt(RefW(k)), RefR(RefL1Elem(k, RefW(k))))

\* the same with the constructor weight taken out as its square
RefL1Squared(k) == RatMul(RatInt(RefW(k) * RefW(k)), RefR(RefL1Elem(k, 1)))

(***************************************************************************)
(* C1: constructing either class with a reduction other than "mean" or     *)
(* "sum" raises ValueError before the base constructor runs and yields no  *)
(* object; with "mean" or "sum" it succeeds for every weight and the       *)
(* object carries the reduction and the weight given.                      *)
(***************************************************************************)
C1_ReductionValidated ==
    ctor.cls # "none" =>
        /\ ctor.reduction \notin {"mean", "sum"} =>
              /\ ctor.exc = "ValueError"
              /\ ~ctor.base_called
              /\ self = NoObj
              /\ pc = "ctor_failed"
        /\ ctor.reduction \in {"mean", "sum"} =>
              /\ ctor.exc = "none"
              /\ ctor.base_called
              /\ self = [cls |-> ctor.cls, reduction |-> ctor.reduction,
                         weight |-> ctor.weight]
              /\ pc # "ctor_failed"

C1_Witness ==
    /\ pc = "ctor_failed"
    /\ ctor.cls = "PeriodicL1Loss"
    /\ ctor.reduction = "none"
    /\ ctor.weight.type = "dict"

(***************************************************************************)
(* C2: PeriodicL1Loss.forward raises, and returns no loss, whenever some   *)
(* label key's output tensor has an odd number of rows, however many even  *)
(* keys came before; the odd-length ValueError is raised only when such a  *)
(* key exists, and it is the error raised when nothing else is wrong with  *)
(* the call.                                                               *)
(***************************************************************************)
OddKeys == {k \in LabelKeys : Has(output_dict, k) /\ Rows(k) % 2 = 1}

NothingMissing ==
    /\ \A k \in LabelKeys : Has(output_dict, k)
    /\ weight_dict.type = "dict" => \A k \in LabelKeys : Has(weight_dict.d, k)

OnlyKey(out, k) == [x \in OutKeys |-> IF x \in {k, AreaKey} THEN out[x] ELSE Absent]

\* the outcome of the call with label_dict cut down to key k and output_dict
\* to k and "area"
Alone(k) == forward(self, OnlyKey(output_dict, k), <<<<k, LabelOf(k)>>>>, weight_dict).ret

AloneVal(k) == Alone(k).val

Reversed(lab) == [i \in 1..Len(lab) |-> lab[Len(lab) + 1 - i]]

IsScalar(q) == q \in Int \X Nat /\ (q[2] = 0 => q[1] = 0)

C3_SumOverLabelKeys ==
    pc = "returned" =>
        /\ IsScalar(ret.val)
        /\ \A k \in LabelKeys : Alone(k).kind = "return"
        /\ ret.val = RefSum(LabelKeys, AloneVal)
        /\ forward(self, output_dict, Reversed(label_dict), weight_dict).ret = ret
        /\ label_dict = <<>> => ret.val = Zero

C3_Witness ==
    /\ pc = "returned"
    /\ KeySeq(label_dict) = <<"v", "u">>
    /\ AloneVal("u") # Zero
    /\ AloneVal("v") # Zero
    /\ AloneVal("u") # AloneVal("v")

C3_WitnessExtraKey ==
    /\ pc = "returned"
    /\ KeySeq(label_dict) = <<"u">>
    /\ Has(output_dict, "v")
    /\ ret.val # Zero

(***************************************************************************)
(* C4: in L1Loss.forward the contribution of label key k is                *)
(* w_k * R(w_k * a * d_k * |output[k] - label[k]|): weight_dict and area   *)
(* are applied once, before the reduction, the constructor weight before   *)
(* and after it, so the contribution scales with the square of w_k.        *)
(***************************************************************************)
C4_L1Contribution ==
    (pc = "returned" /\ IsL1) =>
        /\ ret.val = RefSum(LabelKeys, RefL1Term)
        /\ ret.val = RefSum(LabelKeys, RefL1Squared)

\* the same for the weights the signature declares: None, a float, a mapping
C4_DeclaredWeightTypes ==
    (pc = "returned" /\ self.weight.type # "int") => C4_L1Contribution

C4_Witness ==
    /\ pc = "returned"
    /\ IsL1
    /\ self.weight.type = "dict"
    /\ self.reduction = "mean"
    /\ KeySeq(label_dict) = <<"u", "v">>
    /\ Has(self.weight.d, "u")
    /\ weight_dict.type = "dict"
    /\ HasArea
    /\ Rows("u") = 3
    /\ ret.val # Zero

(***************************************************************************)
(* C5: in PeriodicL1Loss.forward the constructor weight is applied before  *)
(* and after the reduction, so a key's contribution scales with the square *)
(* of its constructor weight; weight_dict is applied once, before the      *)
(* reduction.                                                              *)
(***************************************************************************)
Half(k) == Rows(k) \div 2

\* w * a * d_k * |first half - second half| of output[k], row i against row
\* i + n/2
RefPeriodicElem(k, w) ==
    LET x == output_dict[k].v
        h == Half(k)
    IN  [i \in 1..RefRows(h) |->
            w * RefA(i) * RefD(k) *
            AbsInt((IF h = 1 THEN x[1] ELSE x[i]) - (IF h = 1 THEN x[2] ELSE x[h + i]))]

\* the claim: weight applied on both sides of the reduction
RefPeriodicTwice(k) == RatMul(RatInt(RefW(k)), RefR(RefPeriodicElem(k, RefW(k))))

\* the weight the isinstance chain of forward applies: a float scalar, or the
\* mapping's entry for the key, and nothing otherwise
RefApplied(k) == IF self.weight.type = "int" THEN 1 ELSE RefW(k)

\* the weight applied once, after the reduction
RefPeriodicOnce(k) == RatMul(RatInt(RefApplied(k)), RefR(RefPeriodicElem(k, 1)))

C5_PeriodicWeightTwice ==
    (pc = "returned" /\ IsPeriodic /\ self.weight.type \in {"float", "dict"}) =>
        ret.val = RefSum(LabelKeys, RefPeriodicTwice)

\* C5 as amended: the constructor weight that forward applies is applied
\* once, after the reduction, so the contribution is linear in it;
\* weight_dict is applied once, before the reduction.
C5_PeriodicWeightOnce ==
    (pc = "returned" /\ IsPeriodic) =>
        ret.val = RefSum(LabelKeys, RefPeriodicOnce)

C5_Witness ==
    /\ pc = "returned"
    /\ IsPeriodic
    /\ self.weight = PyFloat(2)
    /\ self.reduction = "mean"
    /\ weight_dict.type = "dict"
    /\ KeySeq(label_dict) = <<"u", "v">>
    /\ Rows("u") = 4
    /\ Rows("v") = 2
    /\ ret.val # Zero

(***************************************************************************)
(* C6: a scalar constructor weight, a float or an integer-valued scalar    *)
(* such as 2, is applied to every field: the result is the result for      *)
(* weight None scaled by the weight (in L1Loss, where it is applied on     *)
(* both sides of the reduction, by its square).                            *)
(***************************************************************************)
Unweighted == [cls |-> self.cls, reduction |-> self.reduction, weight |-> None]

\* the value of the same call on an object constructed with weight None
UnweightedVal == forward(Unweighted, output_dict, label_dict, weight_dict).ret.val

ScalarFactor == IF IsL1 THEN self.weight.v * self.weight.v ELSE self.weight.v

C6_ScalarWeightApplied ==
    (pc = "returned" /\ self.weight.type \in {"float", "int"}) =>
        ret.val = RatMul(RatInt(ScalarFactor), UnweightedVal)

\* the same for float scalars alone
C6_FloatOnly ==
    (pc = "returned" /\ self.weight.type # "int") => C6_ScalarWeightApplied

(***************************************************************************)
(* C7: with "area" in output_dict, forward of both classes multiplies      *)
(* every label key's elementwise loss by the area tensor as a per-sample   *)
(* weight before the reduction, and the call succeeds; without "area" no   *)
(* factor is applied.                                                      *)
(***************************************************************************)
\* the area tensor has one row per sample of every field of the call
PerSampleArea == HasArea /\ \A k \in LabelKeys : Has(output_dict, k) /\ Rows(k) = AreaRows

\* nothing else is wrong with the call
WellFormedCall == NothingMissing /\ (IsPeriodic => OddKeys = {})

\* the per-key loss, every row of the elementwise loss times its area factor
RefAreaTerm(k) ==
    IF IsL1 THEN RatMul(RatInt(RefApplied(k)), RefR(RefL1Elem(k, RefApplied(k))))
    ELSE RefPeriodicOnce(k)

C7_AreaApplied ==
    (AfterCall /\ WellFormedCall /\ PerSampleArea) =>
        /\ ret.kind = "return"
        /\ ret.val = RefSum(LabelKeys, RefAreaTerm)

\* the same for L1Loss alone
C7_L1Only == (AfterCall /\ IsL1) => C7_AreaApplied

(***************************************************************************)
(* C8: a forward call, whether it returns or raises, leaves the object's   *)
(* reduction and weight as constructed and the three mappings passed in    *)
(* unchanged; a call's outcome depends on its arguments and the            *)
(* configuration alone, so repeating a call repeats its outcome.           *)
(***************************************************************************)
IsCall == ncalls' = ncalls + 1

C8_ForwardFrame ==
    [][IsCall =>
        /\ self' = self
        /\ self'.reduction = ctor'.reduction
        /\ self'.weight = ctor'.weight
        /\ output_dict' = output_dict
        /\ label_dict' = label_dict
        /\ weight_dict' = weight_dict
        /\ ncalls >= 1 => ret' = ret]_vars

C8_Witness ==
    /\ ncalls = 2
    /\ pc = "returned"
    /\ HasArea
    /\ weight_dict.type = "dict"
    /\ Len(label_dict) = 2
    /\ ret.val # Zero

C8_WitnessRaised == ncalls = 2 /\ pc = "raised"

(***************************************************************************)
(* C9: PeriodicL1Loss.forward takes, per label key, the elementwise        *)
(* absolute difference of rows [0, n/2) and rows [n/2, n) of the key's     *)
(* output tensor, row i against row i + n/2; label_dict gives only its     *)
(* keys; with reduction "mean" the divisor is the element count of one     *)
(* half.                                                                   *)
(***************************************************************************)
\* the area-, weight_dict-weighted differences of the paired rows, summed
RefHalfSum(k) == SumFrom(RefPeriodicElem(k, 1), 1)

\* reduced with the row count of one half as the divisor of the mean
RefHalfTerm(k) ==
    RatMul(RatInt(RefApplied(k)),
           IF self.reduction = "sum" THEN RatInt(RefHalfSum(k))
           ELSE Rat(RefHalfSum(k), Half(k)))

OtherLabels ==
    [i \in 1..Len(label_dict) |->
        <<label_dict[i][1], [j \in 1..Len(label_dict[i][2]) |-> label_dict[i][2][j] + 1]>>]

C9_PeriodicHalves ==
    (AfterCall /\ IsPeriodic) =>
        /\ PeriodicL1Loss_forward(self, output_dict, OtherLabels, weight_dict).ret = ret
        /\ pc = "returned" => ret.val = RefSum(LabelKeys, RefHalfTerm)

\* the same for the calls in which no area tensor of several rows meets a
\* half of one row
C9_NoBroadcast ==
    (AfterCall /\ IsPeriodic /\ pc = "returned"
        /\ (HasArea => \A k \in LabelKeys : Half(k) = AreaRows \/ AreaRows = 1)) =>
        C9_PeriodicHalves

(***************************************************************************)
(* C10: a label key absent from a constructor weight mapping is left       *)
(* unweighted and causes no error, whereas a non-None weight_dict or an    *)
(* output_dict that lacks a label key makes forward fail with a key error  *)
(* and return no loss; in PeriodicL1Loss.forward a key that is odd-length  *)
(* and missing from weight_dict yields the odd-length ValueError.          *)
(***************************************************************************)
KeyAt(i) == label_dict[i][1]

MissingOutAt(i) == ~Has(output_dict, KeyAt(i))

MissingWdAt(i) == weight_dict.type = "dict" /\ ~Has(weight_dict.d, KeyAt(i))

MissingAt(i) == MissingOutAt(i) \/ MissingWdAt(i)

OddAt(i) == IsPeriodic /\ Has(output_dict, KeyAt(i)) /\ Rows(KeyAt(i)) % 2 = 1

\* the area tensor does not broadcast against the key's elementwise loss
ShapeFailAt(i) ==
    /\ Has(output_dict, KeyAt(i))
    /\ HasArea
    /\ BroadcastLen(IF IsPeriodic THEN Half(KeyAt(i)) ELSE Rows(KeyAt(i)), AreaRows) < 0

FailsAt(i) == MissingAt(i) \/ OddAt(i) \/ ShapeFailAt(i)

CleanBefore(i) == \A j \in 1..(i - 1) : ~FailsAt(j)

Positions == 1..Len(label_dict)

\* the receiver with 1 entered in its weight mapping for every missing key
Completed ==
    [cls |-> self.cls, reduction |-> self.reduction,
     weight |-> PyDict([k \in Keys |->
                    IF self.weight.d[k].has THEN self.weight.d[k] ELSE Entry(1)])]

\* the claim as stated: any missing entry means a KeyError, but for a key
\* that is odd-length and missing from weight_dict
C10_MissingKeyIsKeyError ==
    (AfterCall /\ \E i \in Positions : MissingAt(i)) =>
        /\ ret.kind = "raise"
        /\ \/ ret.exc = "KeyError"
           \/ \E i \in Positions : OddAt(i) /\ MissingWdAt(i)

\* C10 as amended: the call fails and returns no loss; the error is a
\* KeyError when the key lacking its entry is the first key, in label_dict
\* order, at which the call fails (the odd-length ValueError if that key of
\* PeriodicL1Loss.forward is odd-length too), and otherwise the error of the
\* earlier key.
C10_MissingKeys ==
    AfterCall =>
        /\ (\E i \in Positions : MissingAt(i)) =>
              (ret.kind = "raise" /\ "val" \notin DOMAIN ret)
        /\ \A i \in Positions :
              (CleanBefore(i) /\ MissingAt(i)) =>
                  ret.exc = IF OddAt(i) THEN "ValueError" ELSE "KeyError"
        /\ (self.weight.type = "dict" /\ \A i \in Positions : ~FailsAt(i)) =>
              /\ ret.kind = "return"
              /\ forward(Completed, output_dict, label_dict, weight_dict).ret = ret

C10_Witness ==
    /\ pc = "raised"
    /\ IsPeriodic
    /\ self.weight.type = "dict"
    /\ KeySeq(label_dict) = <<"u", "v">>
    /\ ~MissingAt(1)
    /\ OddAt(1)
    /\ MissingOutAt(2)
    /\ ret.exc = "ValueError"

C10_WitnessUnweighted ==
    /\ pc = "returned"
    /\ self.weight.type = "dict"
    /\ \E k \in LabelKeys : ~Has(self.weight.d, k)
    /\ \E k \in LabelKeys : Has(self.weight.d, k)
    /\ ret.val # Zero

====
